---- MODULE Spec2Model ----
(***************************************************************************)
(* Model of the Atom serializer of trailimage/feed (src/src/atom.ts).      *)
(*                                                                         *)
(* JavaScript values are tagged records:                                   *)
(*   [k |-> "undef"], [k |-> "null"]            undefined and null         *)
(*   [k |-> "str",  s |-> <<chars>>]            a string, one character    *)
(*                                              (or opaque chunk) per item *)
(*   [k |-> "date", t |-> ms]                   a valid Date               *)
(*   [k |-> "obj",  addr |-> a, props |-> <<..>>]   an object: its address *)
(*                                              (identity) and its own     *)
(*                                              properties in insertion    *)
(*                                              order, each <<key, value>> *)
(*   [k |-> "arr",  addr |-> a, items |-> <<..>>]   an array               *)
(*   [k |-> "map",  entries |-> <<..>>]         a Map, in insertion order  *)
(* A rendered string is a sequence of chunks; Str flattens it to the text. *)
(***************************************************************************)
EXTENDS Integers, Sequences, FiniteSets, TLC

VARIABLES
    heap,   \* the caller's model: the feed, its generator and its entries
    op,     \* the writer called last ("init" before the first call)
    arg,    \* the arguments of that call
    out     \* the string it returned

vars == <<heap, op, arg, out>>

---------------------------------------------------------------------------
(* Bounds of the model. *)

\* longest element content enumerated exhaustively
MaxLen == 3
\* longest sequence of persons / links passed to writePerson / writeLink
MaxList == 2
\* most entries of a feed
MaxEntries == 2
\* Date values are the instants 0 .. MaxTime (milliseconds since the epoch)
MaxTime == 1

---------------------------------------------------------------------------
(* JavaScript values. *)

Undef == [k |-> "undef"]
Null == [k |-> "null"]
S(s) == [k |-> "str", s |-> s]
D(t) == [k |-> "date", t |-> t]
Obj(a, props) == [k |-> "obj", addr |-> a, props |-> props]
Arr(a, items) == [k |-> "arr", addr |-> a, items |-> items]
MapOf(entries) == [k |-> "map", entries |-> entries]

Range(s) == {s[i] : i \in DOMAIN s}

\* The text of a rendered string.
RECURSIVE Str(_)
Str(s) ==
    IF s = <<>> THEN ""
    ELSE IF Len(s) = 1 THEN s[1]
    ELSE Str(SubSeq(s, 1, Len(s) \div 2))
         \o Str(SubSeq(s, Len(s) \div 2 + 1, Len(s)))

\* The chunk a thrown TypeError leaves in a result (an aborted call).
TypeError == "!TypeError"

Threw(s) == TypeError \in Range(s)

\* o[key]: the own property, undefined when the object has none of that name.
Get(o, key) ==
    IF o.k # "obj" THEN Undef
    ELSE LET I == {i \in DOMAIN o.props : o.props[i][1] = key}
         IN  IF I = {} THEN Undef ELSE o.props[CHOOSE i \in I : TRUE][2]

Keys(o) == [i \in DOMAIN o.props |-> o.props[i][1]]

\* o[key] = v: replaces the property in place, or appends a new one.
SetProp(o, key, v) ==
    IF key \in Range(Keys(o))
    THEN [o EXCEPT !.props =
             [i \in DOMAIN o.props |->
                 IF o.props[i][1] = key THEN <<key, v>> ELSE o.props[i]]]
    ELSE [o EXCEPT !.props = Append(o.props, <<key, v>>)]

---------------------------------------------------------------------------
(* @toba/tools, as atom.ts uses it. *)

is_value(x) == x.k \notin {"undef", "null"}

is_empty(x) == ~is_value(x) \/ x = S(<<>>)

is_text(x) == x.k = "str"

is_date(x) == x.k = "date"

is_array(x) == x.k = "arr"

LinkRelationAlternate == <<"a", "l", "t", "e", "r", "n", "a", "t", "e">>

EscapeChar(c) ==
    CASE c = "&" -> <<"&", "a", "m", "p", ";">>
      [] c = "<" -> <<"&", "l", "t", ";">>
      [] c = ">" -> <<"&", "g", "t", ";">>
      [] c = "\"" -> <<"&", "q", "u", "o", "t", ";">>
      [] c = "'" -> <<"&", "#", "3", "9", ";">>
      [] OTHER -> <<c>>

\* One global replace: every character is looked at once.
RECURSIVE htmlEscape(_)
htmlEscape(s) ==
    IF s = <<>> THEN <<>> ELSE EscapeChar(Head(s)) \o htmlEscape(Tail(s))

---------------------------------------------------------------------------
(* Conversions to string. *)

Digit(n) == <<"0", "1", "2", "3", "4", "5", "6", "7", "8", "9">>[n + 1]

\* Date.prototype.toISOString, for the instants of the first second.
toISOString(d) ==
    <<"1970-01-01T00:00:00.",
      Digit(d.t \div 100), Digit((d.t \div 10) % 10), Digit(d.t % 10), "Z">>

\* x.toString(); a TypeError when x is undefined or null. (A Date's own
\* toString is a local-time text, kept as one chunk; atom.ts never asks for it.)
RECURSIVE toString(_)
RECURSIVE join(_)
join(items) ==
    IF items = <<>> THEN <<>>
    ELSE (IF is_value(Head(items)) THEN toString(Head(items)) ELSE <<>>)
         \o (IF Len(items) > 1 THEN <<",">> ELSE <<>>) \o join(Tail(items))
toString(x) ==
    CASE x.k = "str" -> x.s
      [] x.k = "obj" -> <<"[object Object]">>
      [] x.k = "map" -> <<"[object Map]">>
      [] x.k = "arr" -> join(x.items)
      [] x.k = "date" -> <<"[Date ", Digit(x.t % 10), "]">>
      [] OTHER -> <<TypeError>>

\* ${x} in a template literal.
Template(x) ==
    CASE x.k = "undef" -> <<"undefined">>
      [] x.k = "null" -> <<"null">>
      [] OTHER -> toString(x)

\* Mutant of LooseEq: objects compared by their properties.
LooseEq_ByValue(a, b) ==
    IF ~is_value(a) \/ ~is_value(b) THEN ~is_value(a) /\ ~is_value(b)
    ELSE IF a.k \in {"obj", "arr"} /\ b.k \in {"obj", "arr"}
    THEN [a EXCEPT !.addr = 0] = [b EXCEPT !.addr = 0]
    ELSE a = b

\* a == b between two values (atom.ts:147).
LooseEq(a, b) ==
    CASE ~is_value(a) \/ ~is_value(b) -> ~is_value(a) /\ ~is_value(b)
      [] a.k = "str" /\ b.k = "str" -> a.s = b.s
      [] a.k = "str" -> Str(toString(b)) = Str(a.s)
      [] b.k = "str" -> Str(toString(a)) = Str(b.s)
      [] a.k \in {"obj", "arr"} /\ b.k \in {"obj", "arr"} -> a.addr = b.addr
      [] OTHER -> a = b

---------------------------------------------------------------------------
(* src/src/atom.ts *)

\* TextType.Plain
TextTypePlain == <<"t", "e", "x", "t">>

RECURSIVE writeAttributePairs(_)
writeAttributePairs(entries) ==
    IF entries = <<>> THEN <<>>
    ELSE writeAttributePairs(SubSeq(entries, 1, Len(entries) - 1))
         \o <<" " \o entries[Len(entries)][1] \o "=\"">>
         \o Template(entries[Len(entries)][2]) \o <<"\"">>

writeAttributes(attr) ==
    IF is_value(attr)
    THEN (IF attr.k = "map" THEN writeAttributePairs(attr.entries)
                            ELSE <<TypeError>>)
    ELSE <<>>

\* Mutant of writeTag: the content is escaped a second time.
writeTag_EscapedTwice(name, value, attr) ==
    IF is_empty(value) THEN <<>>
    ELSE <<"<" \o name>> \o writeAttributes(attr) \o <<">">>
         \o htmlEscape(htmlEscape(value.s))
         \o <<"</" \o name \o ">">>

writeTag(name, value, attr) ==
    IF is_empty(value) THEN <<>>
    ELSE <<"<" \o name>> \o writeAttributes(attr) \o <<">">>
         \o (IF value.k = "str" THEN htmlEscape(value.s) ELSE <<TypeError>>)
         \o <<"</" \o name \o ">">>

\* Mutant of writeEntityTag: toString is called without the is.value guard.
writeEntityTag_Unguarded(name, entity, attr) ==
    LET content == Get(entity, name)
        text == IF is_date(content) THEN S(toISOString(content))
                                    ELSE S(toString(content))
    IN  writeTag(name, text, attr)

writeEntityTag(name, entity, attr) ==
    LET content == Get(entity, name)
        text == IF is_value(content)
                THEN (IF is_date(content) THEN S(toISOString(content))
                                          ELSE S(toString(content)))
                ELSE S(<<>>)
    IN  writeTag(name, text, attr)

\* The value returned and the generator object as the call leaves it.
writeGenerator(g) ==
    IF is_value(g)
    THEN LET g2 == SetProp(g, "generator", Get(g, "name"))
             discarded == writeEntityTag("generator", g2, Undef)
         IN  [ret |-> IF Threw(discarded) THEN discarded ELSE <<>>, g |-> g2]
    ELSE [ret |-> <<>>, g |-> g]

\* Mutant of writeTextTag: the type is set without asking whether there is one.
writeTextTag_TypeUnchecked(name, entity) ==
    LET content == Get(entity, name)
        type == IF ~is_value(content) THEN Undef
                ELSE IF is_text(content) THEN S(TextTypePlain)
                ELSE Get(content, "type")
        value == IF ~is_value(content) THEN S(<<>>)
                 ELSE IF is_text(content) THEN content
                 ELSE Get(content, "value")
        attr == MapOf(IF is_value(content)
                      THEN <<<<"type", type>>>> ELSE <<>>)
    IN  writeTag(name, value, attr)

writeTextTag(name, entity) ==
    LET content == Get(entity, name)
        type == IF ~is_value(content) THEN Undef
                ELSE IF is_text(content) THEN S(TextTypePlain)
                ELSE Get(content, "type")
        value == IF ~is_value(content) THEN S(<<>>)
                 ELSE IF is_text(content) THEN content
                 ELSE Get(content, "value")
        attr == MapOf(IF is_value(content) /\ is_value(type)
                      THEN <<<<"type", type>>>> ELSE <<>>)
    IN  writeTag(name, value, attr)

\* Mutant of writePerson: one element around all the persons of a sequence.
RECURSIVE personFields(_)
personFields(persons) ==
    IF persons = <<>> THEN <<>>
    ELSE writeEntityTag("name", Head(persons), Undef)
         \o writeEntityTag("uri", Head(persons), Undef)
         \o writeEntityTag("email", Head(persons), Undef)
         \o personFields(Tail(persons))
writePerson_SharedWrapper(tag, person) ==
    IF is_value(person)
    THEN <<"<" \o tag \o ">">>
         \o personFields(IF is_array(person) THEN person.items ELSE <<person>>)
         \o <<"</" \o tag \o ">">>
    ELSE <<>>

RECURSIVE writePerson(_, _)
writePerson(tag, person) ==
    IF is_array(person)
    THEN (IF person.items = <<>> THEN <<>>
          ELSE writePerson(tag, [person EXCEPT !.items =
                                    SubSeq(@, 1, Len(@) - 1)])
               \o writePerson(tag, person.items[Len(person.items)]))
    ELSE IF is_value(person)
    THEN <<"<" \o tag \o ">">>
         \o writeEntityTag("name", person, Undef)
         \o writeEntityTag("uri", person, Undef)
         \o writeEntityTag("email", person, Undef)
         \o <<"</" \o tag \o ">">>
    ELSE <<>>

writeEntry(entry, feedAuthorArg) ==
    LET feedAuthor == IF feedAuthorArg.k = "undef" THEN Null ELSE feedAuthorArg
    IN  <<"<entry>">>
        \o writeEntityTag("id", entry, Undef)
        \o writeTextTag("title", entry)
        \o writeEntityTag("updated", entry, Undef)
        \o writeEntityTag("published", entry, Undef)
        \o (IF LooseEq(feedAuthor, Get(entry, "author")) THEN <<>>
            ELSE writePerson("author", Get(entry, "author")))
        \o writePerson("contributor", Get(entry, "contributor"))
        \o writeTextTag("rights", entry)
        \o writeTextTag("content", entry)
        \o writeTextTag("summary", entry)
        \o <<"</entry>">>

RECURSIVE writeEntries(_, _)
writeEntries(entries, feedAuthor) ==
    IF entries = <<>> THEN <<>>
    ELSE writeEntry(Head(entries), feedAuthor)
         \o writeEntries(Tail(entries), feedAuthor)

\* The value returned and the feed object as the call leaves it.
write(feed) ==
    LET gen == writeGenerator(Get(feed, "generator"))
        feed2 == IF is_value(Get(feed, "generator"))
                 THEN SetProp(feed, "generator", gen.g) ELSE feed
    IN  [ret |-> <<"<?xml version=\"1.0\" encoding=\"utf-8\"?>">>
                 \o <<"<feed xmlns=\"http://www.w3.org/2005/Atom\">">>
                 \o writeEntityTag("id", feed, Undef)
                 \o writeEntityTag("title", feed, Undef)
                 \o writeEntityTag("subtitle", feed, Undef)
                 \o writeEntityTag("rights", feed, Undef)
                 \o writePerson("author", Get(feed, "author"))
                 \o gen.ret
                 \o (IF is_array(Get(feed, "entry"))
                     THEN writeEntries(Get(feed, "entry").items,
                                       Get(feed, "author"))
                     ELSE <<TypeError>>)
                 \o <<"</feed>">>,
         feed |-> feed2]

\* String comparison of property names (Array.prototype.sort's default).
KeyRank(key) ==
    CASE key = "href" -> 1
      [] key = "hreflang" -> 2
      [] key = "length" -> 3
      [] key = "rel" -> 4
      [] key = "title" -> 5
      [] key = "type" -> 6

RECURSIVE InsertKey(_, _)
InsertKey(key, sorted) ==
    IF sorted = <<>> THEN <<key>>
    ELSE IF KeyRank(key) < KeyRank(Head(sorted)) THEN <<key>> \o sorted
    ELSE <<Head(sorted)>> \o InsertKey(key, Tail(sorted))

\* Mutant of SortKeys: the keys stay in insertion order.
SortKeys_InsertionOrder(keys) == keys

RECURSIVE SortKeys(_)
SortKeys(keys) ==
    IF keys = <<>> THEN <<>>
    ELSE InsertKey(keys[Len(keys)], SortKeys(SubSeq(keys, 1, Len(keys) - 1)))

RECURSIVE writeLinkAttributes(_, _)
writeLinkAttributes(link, keys) ==
    IF keys = <<>> THEN <<>>
    ELSE (IF is_value(Get(link, Head(keys)))
          THEN <<" " \o Head(keys) \o "=\"">>
               \o Template(Get(link, Head(keys))) \o <<"\"">>
          ELSE <<>>)
         \o writeLinkAttributes(link, Tail(keys))

RECURSIVE writeLink(_)
writeLink(link) ==
    IF is_array(link)
    THEN (IF link.items = <<>> THEN <<>>
          ELSE writeLink([link EXCEPT !.items = SubSeq(@, 1, Len(@) - 1)])
               \o writeLink(link.items[Len(link.items)]))
    ELSE IF is_text(link)
    THEN writeLink(Obj(0, << <<"href", link>>,
                             <<"rel", S(LinkRelationAlternate)>> >>))
    ELSE IF link.k = "obj"
    THEN <<"<link">> \o writeLinkAttributes(link, SortKeys(Keys(link)))
         \o <<"/>">>
    ELSE <<TypeError>>

---------------------------------------------------------------------------
(* The inputs the calls are made on. *)

\* A property the caller left out of an object literal (no JavaScript value).
Missing == [k |-> "missing"]

\* The object literal with the properties given, in the order given.
Lit(a, props) == Obj(a, SelectSeq(props, LAMBDA p : p[2] # Missing))

Chars == {"a", "&", "<", ">", "\""}

Strings(n) == UNION {[1..m -> Chars] : m \in 0..n}

SeqsOf(X, n) == UNION {[1..m -> X] : m \in 0..n}

\* The content of the test of section 8: <p>&x</p>
MarkupExample == <<"<", "p", ">", "&", "x", "<", "/", "p", ">">>

\* The summary of the entry of atom.test.ts: <p>summary</p>
SummaryExample == <<"<", "p", ">", "summary", "<", "/", "p", ">">>

Dates == {D(t) : t \in 0..MaxTime}

TextTypes == {S(<<"t", "e", "x", "t">>), S(<<"h", "t", "m", "l">>),
              S(<<"x", "h", "t", "m", "l">>)}

\* An optional string property: left out, null, empty or populated.
OptStrings == {Missing, Null, S(<<>>), S(<<"a", "&">>)}

\* A structured Text.
Text(value, type) == Lit(0, << <<"value", value>>, <<"type", type>> >>)

\* A Text-typed property: a bare string, or a structured Text.
TextInputs ==
    {Missing, Undef, Null, S(<<>>), S(<<"a", "<">>)}
    \cup {Text(v, ty) : v \in {Missing, Null, S(<<>>), S(<<"<", "b", ">">>)},
                        ty \in {Missing} \cup TextTypes}
    \cup {Text(S(SummaryExample), S(<<"h", "t", "m", "l">>))}

Person(a, name, uri, email) ==
    Lit(a, << <<"name", name>>, <<"uri", uri>>, <<"email", email>> >>)

\* Persons at address 1, and at address 2 the same records again.
PersonInputs ==
    {Person(a, n, u, e) :
        a \in {1, 2},
        n \in {Missing, S(<<>>), S(<<"B", "o", "b">>), S(<<"<">>)},
        u \in OptStrings,
        e \in {Missing, S(<<"b", "@", "t">>)}}

Bob == Person(1, S(<<"B", "o", "b">>), Missing, S(<<"b", "@", "t">>))
BobTwin == Person(2, S(<<"B", "o", "b">>), Missing, S(<<"b", "@", "t">>))
Sam == Person(3, S(<<"S", "a", "m">>), S(<<"u">>), Missing)
NoName == Person(4, S(<<>>), Null, Missing)

\* One person, several, or none.
PersonArgs ==
    {Undef, Null} \cup PersonInputs \cup {Sam, NoName}
    \cup {Arr(a, ps) : a \in {10, 11},
                       ps \in SeqsOf({Bob, BobTwin, Sam, NoName}, MaxList)}

LinkKeys == {"href", "rel", "type"}

\* Every object literal over LinkKeys: each key left out or given, in any
\* order of insertion.
LinkInputs ==
    {Obj(0, [i \in DOMAIN ks |-> <<ks[i], vs[i]>>]) :
        <<ks, vs>> \in
          UNION {{kv \in [1..m -> LinkKeys] \X
                         [1..m -> {Undef, Null, S(<<>>), S(<<"u">>)}] :
                    \A i, j \in 1..m : i # j => kv[1][i] # kv[1][j]} :
                 m \in 0..Cardinality(LinkKeys)}}

TestLink1 == Obj(0, << <<"href", S(<<"u">>)>>,
                       <<"rel", S(LinkRelationAlternate)>> >>)
TestLink2 == Obj(0, << <<"href", S(<<"u">>)>>,
                       <<"type", S(<<"application/atom+xml">>)>>,
                       <<"rel", S(<<"enclosure">>)>> >>)
EmptyRelLink == Obj(0, << <<"rel", S(<<>>)>>, <<"href", S(<<"u">>)>> >>)

LinkArgs ==
    LinkInputs \cup {TestLink1, TestLink2}
    \cup {S(<<>>), S(<<"u">>)}
    \cup {Arr(0, ls) :
            ls \in SeqsOf({TestLink1, TestLink2, EmptyRelLink, S(<<"u">>)},
                          MaxList)}

AttrInputs ==
    {Undef, Null, MapOf(<<>>),
     MapOf(<< <<"type", S(<<"h", "t", "m", "l">>)>> >>),
     MapOf(<< <<"key1", S(<<"v", "1">>)>>, <<"key2", S(<<"v", "2">>)>> >>),
     MapOf(<< <<"key2", S(<<"v", "2">>)>>, <<"key1", S(<<"v", "1">>)>> >>)}

TagNames == {"t", "summary"}

TagValues ==
    {Undef, Null} \cup {S(s) : s \in Strings(MaxLen) \cup {MarkupExample}}

\* An entity with one property, for writeEntityTag and writeTextTag.
FieldNames == {"id", "title", "updated", "rights", "summary"}

EntityFieldInputs ==
    {Missing, Undef, Null, S(<<>>), S(<<"a", "<">>), S(<<"&">>)} \cup Dates

Entry(a, title, published, author, contributor, rights, content, summary) ==
    Lit(a, << <<"id", S(<<"i", "d">>)>>, <<"title", title>>,
              <<"summary", summary>>, <<"updated", D(0)>>,
              <<"published", published>>, <<"author", author>>,
              <<"contributor", contributor>>, <<"rights", rights>>,
              <<"content", content>> >>)

AuthorInputs ==
    {Missing, Null, Bob, BobTwin, Sam,
     Arr(10, <<Bob, Sam>>), Arr(11, <<Bob, Sam>>)}

EntryInputs ==
    {Entry(20, ti, pu, au, co, ri, S(<<"c">>), su) :
        ti \in {S(<<"t">>), Text(S(<<"<", "b", ">">>), S(<<"h", "t", "m", "l">>))},
        pu \in {Missing, Null, D(1)},
        au \in AuthorInputs,
        co \in {Missing, Null, Sam, Arr(12, <<Sam, NoName>>)},
        ri \in {Missing, S(<<>>), S(<<"r">>)},
        su \in {Missing, Text(S(SummaryExample), S(<<"h", "t", "m", "l">>)),
                Text(S(<<>>), S(<<"h", "t", "m", "l">>))}}
    \cup {Entry(20, ti, Missing, Missing, Missing, ri, co, su) :
            ti \in {Missing, S(<<>>)},
            ri \in {Missing, S(<<>>)},
            co \in {Missing, Null, S(<<>>), S(<<"c">>)},
            su \in {Missing, Text(Missing, S(<<"h", "t", "m", "l">>))}}

FeedAuthorArgs == {Undef, Null, Bob, BobTwin, Arr(10, <<Bob, Sam>>)}

Generator(name, uri, version) ==
    Lit(30, << <<"name", name>>, <<"uri", uri>>, <<"version", version>> >>)

GeneratorInputs ==
    {Missing, Null,
     Generator(S(<<"g">>), Missing, Missing),
     Generator(S(<<"g", "&">>), S(<<"u">>), S(<<"1">>)),
     Generator(S(<<>>), S(<<"u">>), Missing),
     Generator(Missing, Missing, S(<<"1">>))}

Full == Entry(22, S(<<"t">>), D(1), Bob, Sam, S(<<"r">>), S(<<"c", "<">>),
              Text(S(SummaryExample), S(<<"h", "t", "m", "l">>)))
Sparse == Entry(23, Text(S(<<"t">>), Missing), Null, BobTwin, Null, S(<<>>),
                Text(S(<<>>), S(<<"h", "t", "m", "l">>)), Undef)
Shared == Entry(24, S(<<"t">>), Missing, Arr(10, <<Bob, Sam>>),
                Arr(12, <<Sam, NoName>>), Missing, Missing, S(<<"s">>))

FeedEntries == {Full, Sparse, Shared}

Feed(subtitle, rights, author, generator, entries) ==
    Lit(40, << <<"id", S(<<"i", "d">>)>>, <<"title", S(<<"t">>)>>,
               <<"subtitle", subtitle>>, <<"rights", rights>>,
               <<"author", author>>, <<"generator", generator>>,
               <<"entry", Arr(41, entries)>> >>)

FeedInputs ==
    {Feed(su, ri, au, ge, es) :
        su \in OptStrings,
        ri \in {Missing, S(<<"r">>)},
        au \in {Missing, Null, Bob, Arr(10, <<Bob, Sam>>)},
        ge \in GeneratorInputs,
        es \in SeqsOf(FeedEntries, MaxEntries)}

NoArg == [k |-> "none"]

---------------------------------------------------------------------------
(* Calls on the caller's feed: write and writeGenerator. *)

Init ==
    /\ heap \in FeedInputs
    /\ op = "init"
    /\ arg = NoArg
    /\ out = <<>>

CallWrite ==
    LET r == write(heap)
    IN  /\ op' = "write"
        /\ arg' = [feed |-> heap]
        /\ out' = r.ret
        /\ heap' = r.feed

CallWriteGenerator ==
    LET g == Get(heap, "generator")
        r == writeGenerator(g)
    IN  /\ op' = "writeGenerator"
        /\ arg' = [g |-> g]
        /\ out' = r.ret
        /\ heap' = IF is_value(g) THEN SetProp(heap, "generator", r.g)
                                  ELSE heap

Next == CallWrite \/ CallWriteGenerator

Spec == Init /\ [][Next]_vars

---------------------------------------------------------------------------
(* Calls of the writers that only return a string, on arguments of their  *)
(* own.                                                                   *)

\* The calls to make: the writer and its arguments.
LeafCalls ==
    {[fn |-> "writeAttributes", attr |-> attr] : attr \in AttrInputs}
    \cup {[fn |-> "writeTag", name |-> name, value |-> value, attr |-> attr] :
            name \in TagNames, value \in TagValues, attr \in AttrInputs}
    \cup {[fn |-> "writeEntityTag", name |-> name,
           entity |-> Lit(0, << <<name, v>> >>), attr |-> attr] :
            name \in FieldNames, v \in EntityFieldInputs, attr \in AttrInputs}
    \cup {[fn |-> "writeTextTag", name |-> name,
           entity |-> Lit(0, << <<name, v>> >>)] :
            name \in FieldNames, v \in TextInputs}
    \cup {[fn |-> "writePerson", tag |-> tag, person |-> person] :
            tag \in {"author", "contributor"}, person \in PersonArgs}
    \cup {[fn |-> "writeLink", link |-> link] : link \in LinkArgs}
    \cup {[fn |-> "writeEntry", entry |-> entry, feedAuthor |-> feedAuthor] :
            entry \in EntryInputs, feedAuthor \in FeedAuthorArgs}

InitLeaf ==
    /\ heap = Null
    /\ op = "init"
    /\ arg \in LeafCalls
    /\ out = <<>>

Pending(fn) == op = "init" /\ arg # NoArg /\ arg.fn = fn

CallWriteAttributes ==
    /\ Pending("writeAttributes")
    /\ op' = "writeAttributes"
    /\ out' = writeAttributes(arg.attr)
    /\ UNCHANGED <<heap, arg>>

CallWriteTag ==
    /\ Pending("writeTag")
    /\ op' = "writeTag"
    /\ out' = writeTag(arg.name, arg.value, arg.attr)
    /\ UNCHANGED <<heap, arg>>

CallWriteEntityTag ==
    /\ Pending("writeEntityTag")
    /\ op' = "writeEntityTag"
    /\ out' = writeEntityTag(arg.name, arg.entity, arg.attr)
    /\ UNCHANGED <<heap, arg>>

CallWriteTextTag ==
    /\ Pending("writeTextTag")
    /\ op' = "writeTextTag"
    /\ out' = writeTextTag(arg.name, arg.entity)
    /\ UNCHANGED <<heap, arg>>

CallWritePerson ==
    /\ Pending("writePerson")
    /\ op' = "writePerson"
    /\ out' = writePerson(arg.tag, arg.person)
    /\ UNCHANGED <<heap, arg>>

CallWriteLink ==
    /\ Pending("writeLink")
    /\ op' = "writeLink"
    /\ out' = writeLink(arg.link)
    /\ UNCHANGED <<heap, arg>>

CallWriteEntry ==
    /\ Pending("writeEntry")
    /\ op' = "writeEntry"
    /\ out' = writeEntry(arg.entry, arg.feedAuthor)
    /\ UNCHANGED <<heap, arg>>

NextLeaf ==
    \/ CallWriteAttributes
    \/ CallWriteTag
    \/ CallWriteEntityTag
    \/ CallWriteTextTag
    \/ CallWritePerson
    \/ CallWriteLink
    \/ CallWriteEntry

SpecLeaf == InitLeaf /\ [][NextLeaf]_vars

---------------------------------------------------------------------------
(* What the specification says the output is, as text. *)

\* Content with &, < and > replaced by their entities, each once.
RECURSIVE XmlText(_)
XmlText(s) ==
    IF s = <<>> THEN ""
    ELSE (CASE Head(s) = "&" -> "&amp;"
            [] Head(s) = "<" -> "&lt;"
            [] Head(s) = ">" -> "&gt;"
            [] OTHER -> Head(s)) \o XmlText(Tail(s))

NoQuote(s) == "\"" \notin Range(s) /\ "'" \notin Range(s)

Present(v) == v.k \notin {"undef", "null", "missing"}

NonEmpty(v) == Present(v) /\ v # S(<<>>)

IsoText(d) == "1970-01-01T00:00:00.00" \o Digit(d.t) \o "Z"

\* <name attrs>content</name>, or nothing when there is no content.
Element(name, attrs, content) ==
    IF content = "" THEN ""
    ELSE "<" \o name \o attrs \o ">" \o content \o "</" \o name \o ">"

\* The canonical text of a scalar field.
ScalarText(v) ==
    IF ~Present(v) THEN ""
    ELSE IF v.k = "date" THEN IsoText(v)
    ELSE XmlText(v.s)

EntityElement(name, entity) == Element(name, "", ScalarText(Get(entity, name)))

\* The attributes of a Map, in insertion order.
RECURSIVE AttributesText(_)
AttributesText(entries) ==
    IF entries = <<>> THEN ""
    ELSE " " \o Head(entries)[1] \o "=\"" \o Str(Head(entries)[2].s) \o "\""
         \o AttributesText(Tail(entries))

\* A Text field: a bare string is plain text; a structured Text carries its
\* own type, and the type attribute is there only when the type is.
TextElement(name, entity) ==
    LET v == Get(entity, name)
    IN  IF ~Present(v) THEN ""
        ELSE IF v.k = "str"
        THEN Element(name, " type=\"text\"", XmlText(v.s))
        ELSE IF ~NonEmpty(Get(v, "value")) THEN ""
        ELSE Element(name,
                     IF Present(Get(v, "type"))
                     THEN " type=\"" \o Str(Get(v, "type").s) \o "\"" ELSE "",
                     XmlText(Get(v, "value").s))

PersonElement(tag, p) ==
    "<" \o tag \o ">" \o EntityElement("name", p) \o EntityElement("uri", p)
    \o EntityElement("email", p) \o "</" \o tag \o ">"

RECURSIVE PersonElements(_, _)
PersonElements(tag, ps) ==
    IF ps = <<>> THEN ""
    ELSE PersonElement(tag, Head(ps)) \o PersonElements(tag, Tail(ps))

\* One person, a sequence of persons, or none.
PersonsText(tag, v) ==
    IF ~Present(v) THEN ""
    ELSE IF v.k = "arr" THEN PersonElements(tag, v.items)
    ELSE PersonElement(tag, v)

\* An entry, around the author element given.
EntryText(e, author) ==
    "<entry>" \o EntityElement("id", e) \o TextElement("title", e)
    \o EntityElement("updated", e) \o EntityElement("published", e)
    \o author \o PersonsText("contributor", Get(e, "contributor"))
    \o TextElement("rights", e) \o TextElement("content", e)
    \o TextElement("summary", e) \o "</entry>"

IsObject(v) == v.k \in {"obj", "arr"}

SameReference(a, b) == IsObject(a) /\ IsObject(b) /\ a.addr = b.addr

\* Two objects, with the same properties.
EqualTwins(a, b) ==
    /\ IsObject(a) /\ IsObject(b) /\ a.addr # b.addr
    /\ [a EXCEPT !.addr = 0] = [b EXCEPT !.addr = 0]

\* The generator element: the name, with uri and version as attributes.
GeneratorText(g) ==
    Element("generator",
            (IF Present(Get(g, "uri"))
             THEN " uri=\"" \o Str(Get(g, "uri").s) \o "\"" ELSE "")
            \o (IF Present(Get(g, "version"))
                THEN " version=\"" \o Str(Get(g, "version").s) \o "\"" ELSE ""),
            ScalarText(Get(g, "name")))

---------------------------------------------------------------------------
(* C1 *)

\* C1: writeGenerator(g), for a generator g that is present and has a
\* non-empty name, returns the generator element (and not the empty string).
\* Consequently write(feed) holds that element, after the feed's author
\* output and before the first entry.
C1_GeneratorReturned ==
    /\ (op = "writeGenerator" /\ Present(arg.g)
        /\ NonEmpty(Get(arg.g, "name")))
        => (out # <<>> /\ Str(out) = GeneratorText(arg.g))
    /\ (op = "write" /\ Present(Get(arg.feed, "generator"))
        /\ NonEmpty(Get(Get(arg.feed, "generator"), "name")))
        => \E i \in DOMAIN out :
              /\ out[i] = "<generator"
              /\ \A j \in DOMAIN out :
                    (out[j] = "<entry>" => i < j)
                    /\ (out[j] = "</author>" /\ j > i
                        => \E m \in i..j : out[m] = "<entry>")

---------------------------------------------------------------------------
(* C2 *)

\* C2: no call changes the model it is given: the feed, its generator, its
\* entries and their persons have the same properties and values after the
\* call as before it.
C2_ModelUnchanged == [][heap' = heap]_vars

---------------------------------------------------------------------------
(* C3 *)

\* C3: writeEntry leaves out the entry's author element when entry.author is
\* the very object passed as the feed's author, and renders it, through
\* writePerson, when it is another object with equal field values; all the
\* other fields of the entry are rendered the same way in both cases.
C3_AuthorSuppressedByIdentity ==
    op = "writeEntry" =>
        LET e == arg.entry
            a == Get(e, "author")
        IN  /\ SameReference(a, arg.feedAuthor)
                => Str(out) = EntryText(e, "")
            /\ EqualTwins(a, arg.feedAuthor)
                => Str(out) = EntryText(e, PersonsText("author", a))

C3_Witness ==
    /\ op = "writeEntry"
    /\ EqualTwins(Get(arg.entry, "author"), arg.feedAuthor)
    /\ "<author>" \in Range(out)
    /\ Get(arg.entry, "contributor") # Undef

---------------------------------------------------------------------------
(* C4 *)

---------------------------------------------------------------------------
(* C5 *)

\* The attribute names of a link, in lexicographic order.
SortedLinkKeys == <<"href", "rel", "type">>

RECURSIVE LinkAttributesText(_, _, _)
LinkAttributesText(link, keys, nonEmptyOnly) ==
    IF keys = <<>> THEN ""
    ELSE LET v == Get(link, Head(keys))
         IN  (IF (IF nonEmptyOnly THEN NonEmpty(v) ELSE Present(v))
              THEN " " \o Head(keys) \o "=\"" \o Str(v.s) \o "\"" ELSE "")
             \o LinkAttributesText(link, Tail(keys), nonEmptyOnly)

\* One link: a bare string s stands for {href: s, rel: "alternate"}.
LinkElement(l, nonEmptyOnly) ==
    LET d == IF l.k = "str"
             THEN Obj(0, << <<"rel", S(<<"alternate">>)>>, <<"href", l>> >>)
             ELSE l
    IN  "<link" \o LinkAttributesText(d, SortedLinkKeys, nonEmptyOnly) \o "/>"

RECURSIVE LinkElements(_, _)
LinkElements(ls, nonEmptyOnly) ==
    IF ls = <<>> THEN ""
    ELSE LinkElement(Head(ls), nonEmptyOnly)
         \o LinkElements(Tail(ls), nonEmptyOnly)

LinksText(link, nonEmptyOnly) ==
    IF link.k = "arr" THEN LinkElements(link.items, nonEmptyOnly)
    ELSE LinkElement(link, nonEmptyOnly)

\* C5, as claimed: writeLink renders one self-closing link element per
\* descriptor, with the keys whose value is present and non-empty as
\* attributes in lexicographic order; a bare string s is {href: s, rel:
\* "alternate"}; a sequence is the concatenation in input order.
C5_LinkAttributesNonEmpty ==
    op = "writeLink" => Str(out) = LinksText(arg.link, TRUE)

\* C5, amended: the attributes are the keys whose value is neither undefined
\* nor null, in lexicographic order; a key whose value is the empty string is
\* written as key="".
C5_LinkAttributesPresent ==
    op = "writeLink" => Str(out) = LinksText(arg.link, FALSE)

C5_Witness ==
    /\ op = "writeLink"
    /\ arg.link.k = "obj"
    /\ Keys(arg.link) = <<"type", "rel", "href">>
    /\ Get(arg.link, "rel") = S(<<>>)
    /\ Get(arg.link, "type") = Null
    /\ Str(out) = "<link href=\"u\" rel=\"\"/>"

---------------------------------------------------------------------------
(* C6 *)

\* C6: writePerson(tag, persons) is the concatenation, in input order, of
\* one <tag> element per person, each holding that person's name, uri and
\* email in that order with the absent ones left out; no person, null and
\* the empty sequence give the empty string.
C6_PersonsConcatenated ==
    op = "writePerson" =>
        /\ Str(out) = PersonsText(arg.tag, arg.person)
        /\ (~Present(arg.person) \/ arg.person = Arr(arg.person.addr, <<>>))
            => out = <<>>
        /\ (arg.person = Bob /\ arg.tag = "author")
            => Str(out) = "<author><name>Bob</name><email>b@t</email></author>"

C6_Witness ==
    /\ op = "writePerson"
    /\ arg.tag = "contributor"
    /\ arg.person.k = "arr"
    /\ arg.person.items = <<Sam, Bob>>
    /\ Str(out) = "<contributor><name>Sam</name><uri>u</uri></contributor>"
                  \o "<contributor><name>Bob</name><email>b@t</email>"
                  \o "</contributor>"

---------------------------------------------------------------------------
(* C7 *)

RECURSIVE EntriesText(_, _)
EntriesText(es, feedAuthor) ==
    IF es = <<>> THEN ""
    ELSE EntryText(Head(es),
                   IF SameReference(Get(Head(es), "author"), feedAuthor)
                   THEN ""
                   ELSE PersonsText("author", Get(Head(es), "author")))
         \o EntriesText(Tail(es), feedAuthor)

FeedText(feed) ==
    "<?xml version=\"1.0\" encoding=\"utf-8\"?>"
    \o "<feed xmlns=\"http://www.w3.org/2005/Atom\">"
    \o EntityElement("id", feed) \o EntityElement("title", feed)
    \o EntityElement("subtitle", feed) \o EntityElement("rights", feed)
    \o PersonsText("author", Get(feed, "author"))
    \o (IF Present(Get(feed, "generator"))
        THEN GeneratorText(Get(feed, "generator")) ELSE "")
    \o EntriesText(Get(feed, "entry").items, Get(feed, "author"))
    \o "</feed>"

\* C7: write(feed) is the prologue, the feed open tag, then id, title,
\* subtitle, rights, the feed's author(s), the generator, every entry once in
\* the feed's order, and </feed>; each entry holds id, title, updated,
\* published, author, contributor, rights, content, summary in that order.
C7_FeedLayout ==
    op = "write" => Str(out) = FeedText(arg.feed)

---------------------------------------------------------------------------
(* C8 *)

\* C8: writeTextTag writes a bare non-empty string with type="text", a
\* structured Text with a non-empty value with its own type (and with no type
\* attribute when it has no type), and nothing for an absent field, an empty
\* string or a structured Text whose value is absent or empty.
C8_TextResolution ==
    op = "writeTextTag" =>
        /\ Str(out) = TextElement(arg.name, arg.entity)
        /\ (Get(arg.entity, arg.name) = S(<<"a", "<">>) /\ arg.name = "title")
            => Str(out) = "<title type=\"text\">a&lt;</title>"
        /\ ~NonEmpty(Get(arg.entity, arg.name)) => out = <<>>

C8_Witness ==
    /\ op = "writeTextTag"
    /\ arg.name = "rights"
    /\ Get(arg.entity, "rights") = Text(S(<<"<", "b", ">">>), Missing)
    /\ Str(out) = "<rights>&lt;b&gt;</rights>"

---------------------------------------------------------------------------
(* C9 *)

ElementNames ==
    {"id", "title", "subtitle", "updated", "published", "rights", "content",
     "summary", "name", "uri", "email", "generator", "author", "contributor",
     "entry", "feed"}

\* The chunks that end an open tag, and those that are a close tag.
OpenTagEnds ==
    {">", "<feed xmlns=\"http://www.w3.org/2005/Atom\">"}
    \cup {"<" \o n \o ">" : n \in ElementNames}

CloseTags == {"</" \o n \o ">" : n \in ElementNames}

\* No open tag is directly followed by a close tag.
NoEmptyElement(s) ==
    \A i \in 1..(Len(s) - 1) : ~(s[i] \in OpenTagEnds /\ s[i + 1] \in CloseTags)

\* C9: no writer emits an element with empty content: writeTag returns the
\* empty string for empty or null content, writeEntityTag and writeTextTag
\* for an absent, null or empty field, and in the output of writePerson and
\* writeEntry every element, the author and contributor wrappers included,
\* encloses content.
C9_NoEmptyElement ==
    /\ (op = "writeTag" /\ ~NonEmpty(arg.value)) => out = <<>>
    /\ (op \in {"writeEntityTag", "writeTextTag"}
        /\ ~NonEmpty(Get(arg.entity, arg.name))) => out = <<>>
    /\ op \in {"writeTag", "writeEntityTag", "writeTextTag", "writePerson",
               "writeEntry"} => NoEmptyElement(out)

---------------------------------------------------------------------------
(* C10 *)

Count(s, c) == Cardinality({i \in DOMAIN s : s[i] = c})

\* A field with content: a non-empty scalar, or a Text with a non-empty value.
HasContent(entity, name) ==
    LET v == Get(entity, name)
    IN  NonEmpty(v) /\ (IsObject(v) => NonEmpty(Get(v, "value")))

\* The entities of the feed that may carry element `name`.
Entities(feed) ==
    {<<0, feed>>}
    \cup {<<i, Get(feed, "entry").items[i]>> :
            i \in DOMAIN Get(feed, "entry").items}

\* C10: write(feed) returns a string and raises no error, whatever optional
\* fields are absent, null, empty or populated and however many entries there
\* are; an optional field that is absent or empty contributes no element.
C10_WriteTotal ==
    op = "write" =>
        /\ ~Threw(out)
        /\ Len(out) >= 3
        /\ out[1] = "<?xml version=\"1.0\" encoding=\"utf-8\"?>"
        /\ out[Len(out)] = "</feed>"
        /\ \A n \in {"subtitle", "rights", "published", "content", "summary"} :
              Count(out, "<" \o n)
                = Cardinality({x \in Entities(arg.feed) : HasContent(x[2], n)})
        /\ Count(out, "<entry>") = Len(Get(arg.feed, "entry").items)
        /\ ~Present(Get(arg.feed, "generator")) => Count(out, "<generator") = 0
        /\ (~Present(Get(arg.feed, "author"))
            /\ \A i \in DOMAIN Get(arg.feed, "entry").items :
                  ~Present(Get(Get(arg.feed, "entry").items[i], "author")))
            => Count(out, "<author>") = 0

C10_Witness ==
    /\ op = "write"
    /\ Get(arg.feed, "subtitle") = Null
    /\ Get(arg.feed, "rights") = Undef
    /\ Get(arg.feed, "author") = Undef
    /\ Get(arg.feed, "generator") = Null
    /\ Get(arg.feed, "entry").items = <<Sparse, Full>>
    /\ Count(out, "<published") = 1

====
